---- MODULE Spec2Model ----
(***************************************************************************)
(* Client-side response cache of the PK Finance dashboard                  *)
(* (stale-while-revalidate cache, in-flight deduplication, background      *)
(* revalidation, invalidation), modelled from the api client that is       *)
(* appended to src/frontend-service/static/sw.js (lines 90-200).           *)
(*                                                                         *)
(* JavaScript runs the synchronous part of every function and every        *)
(* promise callback to completion, so each of them is one atomic action.   *)
(* The only suspension points are the network fetches: a fetch is issued   *)
(* in one action and settles in a later one, and a caller awaiting a       *)
(* promise observes its result in a still later one, before the next       *)
(* network event is delivered.                                             *)
(*                                                                         *)
(* The second part models the three service-worker scripts                 *)
(* (src/frontend-service/static/sw.js lines 1-57,                          *)
(* src/unified-service/static/sw.js, src/frontend-service/public/sw.js):   *)
(* the install, activate and fetch listeners over the browser's            *)
(* CacheStorage.  Every listener body and every promise callback is one    *)
(* action; cache-storage operations and fetches settle in later actions.   *)
(***************************************************************************)
EXTENDS Integers, Sequences, FiniteSets, TLC

\* ------------------------------------------------------------------ bounds
MaxCalls == 3      \* request() invocations in one behaviour
MaxNet == 2        \* network calls (fetch) in one behaviour
MaxEvents == 2     \* fetch events a service worker handles in one behaviour
MaxLoads == 3      \* load() invocations of a view in one behaviour
MaxRefreshes == 2  \* onRefresh() invocations of PullToRefresh in one behaviour

\* --------------------------------------------------------------- constants
CACHE_TTL == 120000
STALE_TTL == 600000

\* Values Date.now() takes in the model, relative to the first reading: the
\* instants around the two freshness boundaries.
Instants == {0, CACHE_TTL - 1, CACHE_TTL, STALE_TTL}

\* opts.method when the caller passes no method
NoMethod == "undefined"

\* Paths are sequences of fragments, so that String.prototype.includes is a
\* real containment test on them.
MufapPrefix == <<"/api/", "mufap/">>
PsxPrefix == <<"/api/", "psx/">>

\* The api object: path, method and the prefix invalidated by the .then
\* continuation (<<>> when the method has no continuation).
NoPrefix == <<>>
api ==
  [ getFunds      |-> [path |-> MufapPrefix \o <<"funds">>, method |-> NoMethod,
                       then |-> NoPrefix],
    getStocks     |-> [path |-> PsxPrefix \o <<"stocks">>, method |-> NoMethod,
                       then |-> NoPrefix],
    scrapeFunds   |-> [path |-> MufapPrefix \o <<"scrape/sync">>, method |-> "POST",
                       then |-> MufapPrefix],
    scrapeStocks  |-> [path |-> PsxPrefix \o <<"scrape/sync">>, method |-> "POST",
                       then |-> PsxPrefix],
    scrapeIndices |-> [path |-> PsxPrefix \o <<"scrape/indices">>, method |-> "POST",
                       then |-> PsxPrefix] ]

ApiOps == DOMAIN api

\* health: () => request('/api/health'), the method App polls
HealthPath == <<"/api/", "health">>

\* ------------------------------------------------------------------ values
\* What a promise can settle with.  One record shape for all of them.
\* Json(n) is the decoded body of the response to network call n, Err(n) the
\* error network call n failed with.
NoValue == [tag |-> "none", src |-> 0]
Undefined == [tag |-> "undefined", src |-> 0]
Json(n) == [tag |-> "json", src |-> n]
Bool(b) == [tag |-> IF b THEN "true" ELSE "false", src |-> 0]
Err(n) == [tag |-> "error", src |-> n]

\* How a fetch can fail: it rejects (transport error), or it resolves with a
\* response whose ok is false (non-2xx status)
Failures == {"transport", "status"}

\* -------------------------------------------------------------------- state
VARIABLES
  now,        \* Date.now()
  cache,      \* Map key -> {data, time}
  inflight,   \* Map key -> promise (the network call whose chain it is)
  net,        \* the network calls issued so far and the state of their chain
  calls,      \* the request() invocations so far and what the caller saw
  caches,     \* CacheStorage: the named caches, in order of creation
  worker,     \* the service worker: its script and where its lifecycle is
  events,     \* the fetch events dispatched to the worker so far
  view,       \* the React state of the mounted view (funds, stocks, indices)
  loads,      \* the load() invocations of the view so far
  scrape,     \* where the view's handleScrape() is
  health,     \* App: the health state handed to Header
  polls,      \* App: the checkHealth() invocations so far
  down,       \* whether the network has gone down for good
  pull        \* PullToRefresh: its refs, its React state, its onTouchEnd()

vars == <<now, cache, inflight, net, calls, caches, worker, events,
          view, loads, scrape, health, polls, down, pull>>

\* The variables of the api client, those of the service worker, and those
\* of the React components
apiVars == <<now, cache, inflight, net, calls>>
swVars == <<caches, worker, events>>
viewVars == <<view, loads, scrape>>
appVars == <<health, polls, down>>
uiVars == <<view, loads, scrape, health, polls, down, pull>>

\* ------------------------------------------------------------ Map helpers
MapSet(m, k, v) == [x \in DOMAIN m \cup {k} |-> IF x = k THEN v ELSE m[x]]
MapDelete(m, k) == [x \in DOMAIN m \ {k} |-> m[x]]
EmptyMap == [x \in {} |-> 0]

\* `${opts?.method || 'GET'}:${path}`
getCacheKey(path, method) ==
  <<IF method = NoMethod THEN "GET" ELSE method, ":">> \o path

\* !opts.method || opts.method === 'GET'
isGet_Always(method) == TRUE
isGet(method) == method = NoMethod \/ method = "GET"

\* age < CACHE_TTL
isFresh_Short(age) == age < CACHE_TTL - 1
isFresh(age) == age < CACHE_TTL

\* age < STALE_TTL
isUsable(age) == age < STALE_TTL

\* key.includes(prefix)
includes(key, prefix) ==
  \E i \in 1..(Len(key) - Len(prefix) + 1) :
     SubSeq(key, i, i + Len(prefix) - 1) = prefix

\* The page without a service worker: nothing is registered, CacheStorage is
\* empty
NoWorker ==
  [script |-> "none", state |-> "none", skipWaiting |-> FALSE,
   claimed |-> FALSE, keys |-> "none", deleting |-> {}]

NoServiceWorker ==
  /\ caches = <<>>
  /\ worker = NoWorker
  /\ events = <<>>

\* null, the initial health of App
Null == [tag |-> "null", src |-> 0]

\* useState([]): the list a view shows before any response, and after a
\* failed load
EmptyList == [sel |-> "none", load |-> 0]

\* No view is mounted
NoView ==
  [component |-> "none", sub |-> "none", stocks |-> EmptyList,
   loading |-> FALSE, scraping |-> FALSE]

\* handleScrape() has not run: at is where it is, api the state of the
\* promise of api.scrapeStocks(), sel the selection its render gave it, load
\* the load() it awaits or awaited (0: none)
NoScrape == [at |-> "idle", sel |-> "none", load |-> 0, api |-> "none"]

\* PullToRefresh after construction: useRef(0), useRef(false), useState(0),
\* useState(false), useState('idle').  awaiting counts the onTouchEnd()
\* invocations that wait for onRefresh() to settle, pausing those that wait
\* for the 300 ms timer after it, invoked the onRefresh() calls so far.
PullIdle ==
  [pulling |-> FALSE, startY |-> 0, currentY |-> 0, pullDistance |-> 0,
   refreshing |-> FALSE, phase |-> "idle", awaiting |-> 0, pausing |-> 0,
   invoked |-> 0]

\* The page before any component acts: App holds useState(null) and has not
\* polled, the network is up
NoApp ==
  /\ health = Null
  /\ polls = <<>>
  /\ down = FALSE

NoPage ==
  /\ view = NoView
  /\ loads = <<>>
  /\ scrape = NoScrape
  /\ NoApp
  /\ pull = PullIdle

Init ==
  /\ now = 0
  /\ cache = EmptyMap
  /\ inflight = EmptyMap
  /\ net = <<>>
  /\ calls = <<>>
  /\ NoServiceWorker
  /\ NoPage

\* fetch(`${BASE}${path}`, opts): a new network call, underway
NewNet(path, key, kind, method) ==
  [path |-> path, key |-> key, kind |-> kind, method |-> method,
   response |-> "pending", state |-> "underway", value |-> NoValue]

\* function revalidate(path, key): sets inflight' and net'
revalidate_Inverted(path, key) ==
  IF key \notin DOMAIN inflight
  THEN UNCHANGED <<inflight, net>>
  ELSE /\ Len(net) < MaxNet
       /\ net' = Append(net, NewNet(path, key, "revalidate", NoMethod))
       /\ inflight' = MapSet(inflight, key, Len(net) + 1)

revalidate(path, key) ==
  IF key \in DOMAIN inflight
  THEN UNCHANGED <<inflight, net>>
  ELSE /\ Len(net) < MaxNet
       /\ net' = Append(net, NewNet(path, key, "revalidate", NoMethod))
       /\ inflight' = MapSet(inflight, key, Len(net) + 1)

\* The scrape calls that have resolved and whose invalidation covers key
ScrapesDone(key) ==
  {s \in 1..Len(calls) : /\ calls[s].state = "resolved"
                          /\ calls[s].method = "POST"
                          /\ includes(key, calls[s].then)}

SetMax(S) == CHOOSE x \in S : \A y \in S : y <= x

\* A request() invocation.  via tells which return statement it left by,
\* promise the network call it awaits (0: none), expired whether it found an
\* entry too old to use.  then is the prefix the api method invalidates in its
\* continuation.  Two fields order events for the properties: after is the
\* number of network calls that had been issued when the latest scrape
\* covering key resolved (-1: no such scrape before this call), mark the
\* number of network calls that had been issued when this call, a scrape,
\* resolved (-1 for every other call).
NewCall(path, method, key, via, promise, state, value) ==
  [path |-> path, method |-> method, key |-> key, via |-> via,
   promise |-> promise, state |-> state, value |-> value,
   then |-> IF path = HealthPath THEN NoPrefix
            ELSE api[CHOOSE op \in ApiOps : api[op].path = path].then,
   expired |-> isGet(method) /\ key \in DOMAIN cache
               /\ ~isUsable(now - cache[key].time),
   after |-> SetMax({calls[s].mark : s \in ScrapesDone(key)} \cup {-1}),
   mark |-> -1]

\* async function request(path, opts): the synchronous part, up to the
\* first return
request(path, method) ==
  LET key == getCacheKey(path, method)
      cached == isGet(method) /\ key \in DOMAIN cache
      age == now - cache[key].time
  IN
  /\ Len(calls) < MaxCalls
  /\ IF cached /\ isFresh(age)
     THEN /\ calls' = Append(calls, NewCall(path, method, key, "fresh", 0,
                                            "resolved", cache[key].data))
          /\ UNCHANGED <<cache, inflight, net>>
     ELSE IF cached /\ isUsable(age)
     THEN /\ revalidate(path, key)
          /\ calls' = Append(calls, NewCall(path, method, key, "stale", 0,
                                            "resolved", cache[key].data))
          /\ UNCHANGED cache
     ELSE IF isGet(method) /\ key \in DOMAIN inflight
     THEN /\ calls' = Append(calls, NewCall(path, method, key, "attach",
                                            inflight[key], "pending", NoValue))
          /\ UNCHANGED <<cache, inflight, net>>
     ELSE /\ Len(net) < MaxNet
          /\ net' = Append(net, NewNet(path, key, "request", method))
          /\ inflight' = IF isGet(method)
                         THEN MapSet(inflight, key, Len(net) + 1)
                         ELSE inflight
          /\ calls' = Append(calls, NewCall(path, method, key, "fetch",
                                            Len(net) + 1, "pending", NoValue))
          /\ UNCHANGED cache
  /\ UNCHANGED now
  /\ UNCHANGED swVars

\* api.<op>(): every method of the api object starts with a request()
ApiCall(op) == request(api[op].path, api[op].method) /\ UNCHANGED uiVars

Underway(n) == n \in 1..Len(net) /\ net[n].state = "underway"

\* The reactions to a settled promise are microtasks: the callers awaiting it
\* run before the event loop delivers the next network event.  Quiet holds
\* when no caller is waiting for a promise that has already settled.
Quiet ==
  \A c \in 1..Len(calls) :
     calls[c].state = "pending" => Underway(calls[c].promise)

SettleNet(n, response, state, value) ==
  net' = [net EXCEPT ![n].response = response, ![n].state = state,
                     ![n].value = value]

\* request(): .then(data => ...) after a 2xx response whose body decoded
requestThen(n) ==
  LET key == net[n].key
      data == Json(n)
  IN
  /\ Quiet
  /\ Underway(n) /\ net[n].kind = "request"
  /\ cache' = IF isGet(net[n].method)
              THEN MapSet(cache, key, [data |-> data, time |-> now])
              ELSE cache
  /\ inflight' = MapDelete(inflight, key)
  /\ SettleNet(n, "ok", "fulfilled", data)
  /\ UNCHANGED <<now, calls>>
  /\ UNCHANGED swVars
  /\ UNCHANGED uiVars

\* const stale = cache.get(key); if (stale) return stale.data; throw err
\* gives the state and the value the promise settles with
staleOrThrow_Throw(key, err) == <<"rejected", err>>
staleOrThrow(key, err) ==
  IF key \in DOMAIN cache THEN <<"fulfilled", cache[key].data>>
  ELSE <<"rejected", err>>

\* request(): .catch(err => ...) after a transport error or a non-2xx status
\* (why); both reach the handler as err
requestCatch_KeepInflight(n, why) ==
  LET key == net[n].key
      out == staleOrThrow(key, Err(n))
  IN
  /\ Quiet
  /\ Underway(n) /\ net[n].kind = "request"
  /\ why \in Failures
  /\ SettleNet(n, "failed", out[1], out[2])
  /\ UNCHANGED <<now, cache, inflight, calls>>
  /\ UNCHANGED swVars
  /\ UNCHANGED uiVars

requestCatch_Evict(n, why) ==
  LET key == net[n].key
      out == staleOrThrow(key, Err(n))
  IN
  /\ Quiet
  /\ Underway(n) /\ net[n].kind = "request"
  /\ inflight' = MapDelete(inflight, key)
  /\ cache' = MapDelete(cache, key)
  /\ why \in Failures
  /\ SettleNet(n, "failed", out[1], out[2])
  /\ UNCHANGED <<now, calls>>
  /\ UNCHANGED swVars
  /\ UNCHANGED uiVars

requestCatch(n, why) ==
  LET key == net[n].key
      out == staleOrThrow(key, Err(n))
  IN
  /\ Quiet
  /\ Underway(n) /\ net[n].kind = "request"
  /\ inflight' = MapDelete(inflight, key)
  /\ why \in Failures
  /\ SettleNet(n, "failed", out[1], out[2])
  /\ UNCHANGED <<now, cache, calls>>
  /\ UNCHANGED swVars
  /\ UNCHANGED uiVars

\* revalidate(): .then(data => ...); data is the decoded body of a 2xx
\* response (ok), or null after a non-2xx status.  The endpoints answer with
\* a JSON object, so `if (data)` fails for that null only.
revalidateThen_WriteAlways(n, ok) ==
  LET key == net[n].key
  IN
  /\ Quiet
  /\ Underway(n) /\ net[n].kind = "revalidate"
  /\ cache' = MapSet(cache, key, [data |-> Json(n), time |-> now])
  /\ inflight' = MapDelete(inflight, key)
  /\ SettleNet(n, IF ok THEN "ok" ELSE "failed", "fulfilled", Undefined)
  /\ UNCHANGED <<now, calls>>
  /\ UNCHANGED swVars
  /\ UNCHANGED uiVars

revalidateThen(n, ok) ==
  LET key == net[n].key
  IN
  /\ Quiet
  /\ Underway(n) /\ net[n].kind = "revalidate"
  /\ cache' = IF ok
              THEN MapSet(cache, key, [data |-> Json(n), time |-> now])
              ELSE cache
  /\ inflight' = MapDelete(inflight, key)
  /\ SettleNet(n, IF ok THEN "ok" ELSE "failed", "fulfilled", Undefined)
  /\ UNCHANGED <<now, calls>>
  /\ UNCHANGED swVars
  /\ UNCHANGED uiVars

\* revalidate(): .catch(() => inflight.delete(key)) after a transport error;
\* Map.delete returns whether the key was there
revalidateCatch_KeepInflight(n) ==
  LET key == net[n].key
  IN
  /\ Quiet
  /\ Underway(n) /\ net[n].kind = "revalidate"
  /\ SettleNet(n, "failed", "fulfilled", Bool(key \in DOMAIN inflight))
  /\ UNCHANGED <<now, cache, inflight, calls>>
  /\ UNCHANGED swVars
  /\ UNCHANGED uiVars

revalidateCatch(n) ==
  LET key == net[n].key
  IN
  /\ Quiet
  /\ Underway(n) /\ net[n].kind = "revalidate"
  /\ inflight' = MapDelete(inflight, key)
  /\ SettleNet(n, "failed", "fulfilled", Bool(key \in DOMAIN inflight))
  /\ UNCHANGED <<now, cache, calls>>
  /\ UNCHANGED swVars
  /\ UNCHANGED uiVars

\* function invalidate(prefix): the cache after it
invalidate_All(prefix) == [k \in {} |-> cache[k]]
invalidate(prefix) ==
  [k \in {x \in DOMAIN cache : ~includes(x, prefix)} |-> cache[k]]

\* The caller's continuation, run once the awaited promise has settled.  For
\* the scrape methods it is .then(r => { invalidate(prefix); return r }).
Settle_InvalidateAlways(c) ==
  LET p == calls[c].promise
  IN
  /\ c \in 1..Len(calls) /\ calls[c].state = "pending"
  /\ net[p].state # "underway"
  /\ calls' = [calls EXCEPT ![c].state = IF net[p].state = "fulfilled"
                                          THEN "resolved" ELSE "rejected",
                            ![c].value = net[p].value,
                            ![c].mark = IF net[p].state = "fulfilled"
                                         /\ calls[c].then # NoPrefix
                                      THEN Len(net) ELSE -1]
  /\ cache' = IF calls[c].then # NoPrefix
              THEN invalidate(calls[c].then) ELSE cache
  /\ UNCHANGED <<now, inflight, net>>
  /\ UNCHANGED swVars
  /\ UNCHANGED uiVars

Settle(c) ==
  LET p == calls[c].promise
  IN
  /\ c \in 1..Len(calls) /\ calls[c].state = "pending"
  /\ net[p].state # "underway"
  /\ calls' = [calls EXCEPT ![c].state = IF net[p].state = "fulfilled"
                                          THEN "resolved" ELSE "rejected",
                            ![c].value = net[p].value,
                            ![c].mark = IF net[p].state = "fulfilled"
                                         /\ calls[c].then # NoPrefix
                                      THEN Len(net) ELSE -1]
  /\ cache' = IF net[p].state = "fulfilled" /\ calls[c].then # NoPrefix
              THEN invalidate(calls[c].then) ELSE cache
  /\ UNCHANGED <<now, inflight, net>>
  /\ UNCHANGED swVars
  /\ UNCHANGED uiVars

\* function clearAllCache()
clearAllCache_CacheOnly ==
  /\ cache' = EmptyMap
  /\ UNCHANGED <<now, inflight, net, calls>>
  /\ UNCHANGED swVars
  /\ UNCHANGED uiVars

clearAllCache ==
  /\ cache' = EmptyMap
  /\ inflight' = EmptyMap
  /\ UNCHANGED <<now, net, calls>>
  /\ UNCHANGED swVars
  /\ UNCHANGED uiVars

\* Time passes between two events.
Tick ==
  /\ \E t \in Instants : t > now /\ now' = t
  /\ UNCHANGED <<cache, inflight, net, calls>>
  /\ UNCHANGED swVars
  /\ UNCHANGED uiVars

Next ==
  \/ \E op \in ApiOps : ApiCall(op)
  \/ \E n \in 1..MaxNet : requestThen(n)
  \/ \E n \in 1..MaxNet, why \in Failures : requestCatch(n, why)
  \/ \E n \in 1..MaxNet, ok \in BOOLEAN : revalidateThen(n, ok)
  \/ \E n \in 1..MaxNet : revalidateCatch(n)
  \/ \E c \in 1..MaxCalls : Settle(c)
  \/ clearAllCache
  \/ Tick

Spec == Init /\ [][Next]_vars

\* The chain of network call n settles, one way or the other
NetSettles(n) ==
  \/ requestThen(n)
  \/ \E why \in Failures : requestCatch(n, why)
  \/ \E ok \in BOOLEAN : revalidateThen(n, ok)
  \/ revalidateCatch(n)

\* Every network call settles in the end, and the event loop runs the
\* continuation of every caller whose promise has settled
SpecLive ==
  /\ Init /\ [][Next]_vars
  /\ \A n \in 1..MaxNet : WF_vars(NetSettles(n))
  /\ \A c \in 1..MaxCalls : WF_vars(Settle(c))

\* The client CACHE_TTL after start: every GET of the api object was
\* answered once, at instant 0, those calls are over and their entries have
\* just turned stale.  Json(0) stands for the bodies received then.
InitWarm ==
  /\ now = CACHE_TTL
  /\ cache = [k \in {getCacheKey(api[op].path, api[op].method) :
                        op \in {o \in ApiOps : isGet(api[o].method)}}
                |-> [data |-> Json(0), time |-> 0]]
  /\ inflight = EmptyMap
  /\ net = <<>>
  /\ calls = <<>>
  /\ NoServiceWorker
  /\ NoPage

SpecWarm == InitWarm /\ [][Next]_vars

\* The client of InitWarm a little later: a stale read of the funds started a
\* revalidation, clearAllCache() ran while it was underway, and the entries
\* were fetched again at instant 0.  The revalidation is still underway (fetch
\* has no timeout) and, after inflight.clear(), registered nowhere.
InitOrphan ==
  /\ now = CACHE_TTL
  /\ cache = [k \in {getCacheKey(api[op].path, api[op].method) :
                        op \in {o \in ApiOps : isGet(api[o].method)}}
                |-> [data |-> Json(0), time |-> 0]]
  /\ inflight = EmptyMap
  /\ net = <<NewNet(api.getFunds.path,
                    getCacheKey(api.getFunds.path, api.getFunds.method),
                    "revalidate", NoMethod)>>
  /\ calls = <<>>
  /\ NoServiceWorker
  /\ NoPage

SpecOrphan == InitOrphan /\ [][Next]_vars

\* ========================================================= service workers
\* The three scripts: src/frontend-service/static/sw.js ("static"),
\* src/unified-service/static/sw.js ("unified") and
\* src/frontend-service/public/sw.js ("public")
Scripts == {"static", "unified", "public"}
PkFinance == {"static", "unified"}

\* const CACHE_NAME
CACHE_NAME(script) ==
  CASE script = "static" -> "pk-finance-v8"
    [] script = "unified" -> "pk-finance-v6"
    [] script = "public" -> "fintraxa-v1"

\* A URL is an origin ("self": the worker's own, self.location.origin) and a
\* pathname, a sequence of fragments as the paths of the api client are
SelfUrl(path) == [origin |-> "self", path |-> path]
OtherUrl(path) == [origin |-> "other", path |-> path]
IndexHtml == SelfUrl(<<"/index.html">>)

\* const STATIC_ASSETS
STATIC_ASSETS(script) ==
  IF script \in PkFinance
  THEN {SelfUrl(<<"/">>), IndexHtml, SelfUrl(<<"/manifest.json">>),
        SelfUrl(<<"/icons/", "logo.png">>), SelfUrl(<<"/icons/", "favicon.png">>),
        SelfUrl(<<"/icons/", "apple-touch-icon.png">>),
        SelfUrl(<<"/icons/", "icon-192.png">>),
        SelfUrl(<<"/icons/", "icon-512.png">>)}
  ELSE {SelfUrl(<<"/">>), IndexHtml}

\* url.pathname.startsWith('/api/')
startsWithApi(url) == Len(url.path) >= 1 /\ url.path[1] = "/api/"

\* The requests the pages make: API calls to the worker's origin and to
\* another one, a navigation to the precached document and one to a route
\* that is not precached, a script of the bundle, a stylesheet of another
\* origin
Requests ==
  { [url |-> SelfUrl(<<"/api/", "psx/", "stocks">>), method |-> "GET", mode |-> "cors"],
    [url |-> OtherUrl(<<"/api/", "psx/", "stocks">>), method |-> "GET", mode |-> "cors"],
    [url |-> SelfUrl(<<"/api/", "psx/", "scrape/sync">>), method |-> "POST", mode |-> "cors"],
    [url |-> IndexHtml, method |-> "GET", mode |-> "navigate"],
    [url |-> SelfUrl(<<"/funds">>), method |-> "GET", mode |-> "navigate"],
    [url |-> SelfUrl(<<"/assets/", "index.js">>), method |-> "GET", mode |-> "no-cors"],
    [url |-> OtherUrl(<<"/css/", "fonts.css">>), method |-> "GET", mode |-> "cors"] }

\* Response bodies: what install precached, what an earlier version left in
\* the storage, what the network answered to fetch event e
NoBody == [src |-> "none", ev |-> 0]
Precached == [src |-> "precache", ev |-> 0]
Old == [src |-> "old", ev |-> 0]
FromNetwork(e) == [src |-> "network", ev |-> e]

\* What the page receives for a request: a response of the network (ok or
\* not), a response out of a cache, or a network error: the one of the
\* fetch itself ("error"), or the one the browser raises when respondWith()
\* is given undefined ("undefined")
NoAnswer == [from |-> "none", ok |-> FALSE, body |-> NoBody]
NetworkResponse(e, ok) == [from |-> "network", ok |-> ok, body |-> FromNetwork(e)]
CachedResponse(body) == [from |-> "cache", ok |-> TRUE, body |-> body]
NetworkError == [from |-> "error", ok |-> FALSE, body |-> NoBody]
UndefinedResponse == [from |-> "undefined", ok |-> FALSE, body |-> NoBody]

\* How a fetch made by a worker, or by the browser for it, can end
Outcomes == {"ok", "notok", "error"}

\* ------------------------------------------------------------ CacheStorage
CacheNames(cs) == {cs[i].name : i \in 1..Len(cs)}

\* caches.open(name): creates the cache when there is none of that name
cachesOpen(cs, name) ==
  IF name \in CacheNames(cs) THEN cs
  ELSE Append(cs, [name |-> name, entries |-> EmptyMap])

\* caches.delete(name)
cachesDelete(cs, name) == SelectSeq(cs, LAMBDA c : c.name # name)

\* caches.open(name).then(cache => cache.put(request, response))
cachePut(cs, name, url, body) ==
  LET o == cachesOpen(cs, name) IN
  [i \in 1..Len(o) |->
     IF o[i].name = name
     THEN [o[i] EXCEPT !.entries = MapSet(o[i].entries, url, body)]
     ELSE o[i]]

\* caches.open(name).then(cache => cache.addAll(urls))
cacheAddAll_OpenOnly(cs, name, urls) == cachesOpen(cs, name)
cacheAddAll(cs, name, urls) ==
  LET o == cachesOpen(cs, name) IN
  [i \in 1..Len(o) |->
     IF o[i].name = name
     THEN [o[i] EXCEPT !.entries =
             [u \in DOMAIN o[i].entries \cup urls |->
                IF u \in urls THEN Precached ELSE o[i].entries[u]]]
     ELSE o[i]]

\* caches.match(request): the entry of the first cache, in order of creation,
\* that has one for the URL of a GET request; NoBody stands for undefined
cachesMatch(cs, url, method) ==
  LET hits == {i \in 1..Len(cs) : url \in DOMAIN cs[i].entries} IN
  IF method # "GET" \/ hits = {} THEN NoBody
  ELSE cs[CHOOSE i \in hits : \A j \in hits : i <= j].entries[url]

\* --------------------------------------------------------------- lifecycle
\* What an earlier version may have left in the storage: a cache of any of
\* the three names, holding a document and an API response
OldEntries ==
  [u \in {IndexHtml, SelfUrl(<<"/api/", "psx/", "stocks">>)} |-> Old]

OldCache(name) == [name |-> name, entries |-> OldEntries]

PriorStorage ==
  { <<>>,
    <<OldCache("pk-finance-v6")>>,
    <<OldCache("pk-finance-v8")>>,
    <<OldCache("fintraxa-v1")>>,
    <<OldCache("pk-finance-v6"), OldCache("pk-finance-v8")>>,
    <<OldCache("fintraxa-v1"), OldCache("pk-finance-v6"), OldCache("pk-finance-v8")>> }

\* The browser has fetched and parsed one of the scripts; the api client is
\* idle
InitSW ==
  /\ now = 0
  /\ cache = EmptyMap
  /\ inflight = EmptyMap
  /\ net = <<>>
  /\ calls = <<>>
  /\ NoPage
  /\ caches \in PriorStorage
  /\ \E script \in Scripts :
        worker = [script |-> script, state |-> "parsed", skipWaiting |-> FALSE,
                  claimed |-> FALSE, keys |-> "none", deleting |-> {}]
  /\ events = <<>>

\* addEventListener('install', ...): waitUntil(caches.open().then(addAll))
\* and self.skipWaiting(), in either order
onInstall ==
  /\ worker.state = "parsed"
  /\ worker' = [worker EXCEPT !.state = "installing", !.skipWaiting = TRUE]
  /\ UNCHANGED <<caches, events>>
  /\ UNCHANGED apiVars
  /\ UNCHANGED uiVars

\* The promise given to waitUntil() in install settles: addAll stored every
\* asset (ok), or a request failed and it stored none; caches.open has created
\* the cache in both cases
addAllSettles(ok) ==
  /\ worker.state = "installing"
  /\ caches' = IF ok
               THEN cacheAddAll(caches, CACHE_NAME(worker.script),
                                STATIC_ASSETS(worker.script))
               ELSE cachesOpen(caches, CACHE_NAME(worker.script))
  /\ worker' = [worker EXCEPT !.state = IF ok THEN "installed" ELSE "redundant"]
  /\ UNCHANGED events
  /\ UNCHANGED apiVars
  /\ UNCHANGED uiVars

\* addEventListener('activate', ...), the synchronous part: caches.keys() is
\* called; the pk-finance scripts call self.clients.claim() right after
\* waitUntil(), the fintraxa script calls it in the last .then of the chain
claimsAtOnce(script) == script \in PkFinance

onActivate ==
  /\ worker.state = "installed" /\ worker.skipWaiting
  /\ worker' = [worker EXCEPT !.state = "activating", !.keys = "pending",
                              !.claimed = claimsAtOnce(worker.script)]
  /\ UNCHANGED <<caches, events>>
  /\ UNCHANGED apiVars
  /\ UNCHANGED uiVars

\* The chain given to waitUntil() in activate has settled: the deletions are
\* over (there may have been none).  In the fintraxa script the callback that
\* claims the clients runs now.
activateSettled(w) ==
  [w EXCEPT !.state = "activated", !.claimed = TRUE]

\* caches.keys().then(keys => Promise.all(keys.filter(k => k !== CACHE_NAME)
\*   .map(k => caches.delete(k)))): the deletions are requested
keysThen ==
  LET others == CacheNames(caches) \ {CACHE_NAME(worker.script)}
      w == [worker EXCEPT !.keys = "done", !.deleting = others]
  IN
  /\ worker.state = "activating" /\ worker.keys = "pending"
  /\ worker' = IF others = {} THEN activateSettled(w) ELSE w
  /\ UNCHANGED <<caches, events>>
  /\ UNCHANGED apiVars
  /\ UNCHANGED uiVars

\* One caches.delete(k) completes; after the last one Promise.all resolves
deleteSettles(k) ==
  LET w == [worker EXCEPT !.deleting = @ \ {k}]
  IN
  /\ worker.state = "activating" /\ k \in worker.deleting
  /\ caches' = cachesDelete(caches, k)
  /\ worker' = IF w.deleting = {} THEN activateSettled(w) ELSE w
  /\ UNCHANGED events
  /\ UNCHANGED apiVars
  /\ UNCHANGED uiVars

\* ------------------------------------------------------------- fetch events
\* addEventListener('fetch', ...), the synchronous part: which strategy the
\* script answers the request with.  "none": the listener returns without
\* respondWith() and the browser fetches as if there were no worker;
\* "network": respondWith(fetch(request)); "cacheFirst" and "networkFirst":
\* the two chains.
strategy_AnyMethod(script, req) ==
  CASE script = "static" ->
         IF startsWithApi(req.url) \/ req.url.origin # "self"
         THEN "network" ELSE "cacheFirst"
    [] script = "unified" ->
         IF startsWithApi(req.url) THEN "network" ELSE "cacheFirst"
    [] script = "public" ->
         IF req.url.origin # "self" THEN "none" ELSE "networkFirst"

strategy(script, req) ==
  CASE script = "static" ->
         IF startsWithApi(req.url) \/ req.url.origin # "self"
         THEN "network" ELSE "cacheFirst"
    [] script = "unified" ->
         IF startsWithApi(req.url) THEN "network" ELSE "cacheFirst"
    [] script = "public" ->
         IF req.url.origin # "self" \/ req.method # "GET"
         THEN "none" ELSE "networkFirst"

\* A fetch event: the request, the script that handles it, and how far the
\* chain has come: match is caches.match(event.request) of the cache-first
\* chain, network the fetch, fallback the caches.match() of the catch handler,
\* put the cache.put() of the clone
NewEvent(script, req) ==
  LET how == strategy(script, req) IN
  [req |-> req, script |-> script, strategy |-> how,
   match |-> IF how = "cacheFirst" THEN "pending" ELSE "none",
   network |-> IF how = "cacheFirst" THEN "none" ELSE "pending",
   fallback |-> "none", put |-> "none", answer |-> NoAnswer]

\* The browser dispatches a fetch event to the activated worker
onFetch(req) ==
  /\ worker.state = "activated"
  /\ Len(events) < MaxEvents
  /\ events' = Append(events, NewEvent(worker.script, req))
  /\ UNCHANGED <<caches, worker>>
  /\ UNCHANGED apiVars
  /\ UNCHANGED uiVars

\* caches.match(event.request).then(cached => cached || fetch(event.request)...)
matchThen(e) ==
  LET ev == events[e]
      cached == cachesMatch(caches, ev.req.url, ev.req.method)
  IN
  /\ e \in 1..Len(events) /\ ev.match = "pending"
  /\ events' = [events EXCEPT ![e] =
       IF cached # NoBody
       THEN [ev EXCEPT !.match = "hit", !.answer = CachedResponse(cached)]
       ELSE [ev EXCEPT !.match = "miss", !.network = "pending"]]
  /\ UNCHANGED <<caches, worker>>
  /\ UNCHANGED apiVars
  /\ UNCHANGED uiVars

\* response.type === 'basic': a response to a request to the own origin
isBasic(req) == req.url.origin = "self"

\* if (response.ok && response.type === 'basic') in the pk-finance scripts,
\* if (response.ok) in the fintraxa script
storesClone_AnyType(ev, outcome) == outcome = "ok"
storesClone(ev, outcome) ==
  /\ outcome = "ok"
  /\ \/ ev.strategy = "cacheFirst" /\ isBasic(ev.req)
     \/ ev.strategy = "networkFirst"

\* .catch(...): the pk-finance scripts look up '/index.html' for a navigation
\* and return undefined otherwise, the fintraxa script looks up the request
looksUpFallback_Always(ev) == TRUE
looksUpFallback(ev) ==
  \/ ev.strategy = "cacheFirst" /\ ev.req.mode = "navigate"
  \/ ev.strategy = "networkFirst"

\* The fetch of event e settles: with a 2xx response (ok), with another
\* response (notok), or it rejects (error)
fetchSettles(e, outcome) ==
  LET ev == events[e]
      chained == ev.strategy \in {"cacheFirst", "networkFirst"}
  IN
  /\ e \in 1..Len(events) /\ ev.network = "pending"
  /\ outcome \in Outcomes
  /\ events' = [events EXCEPT ![e] =
       IF outcome # "error"
       THEN [ev EXCEPT !.network = outcome,
                       !.answer = NetworkResponse(e, outcome = "ok"),
                       !.put = IF storesClone(ev, outcome)
                               THEN "pending" ELSE "none"]
       ELSE IF ~chained
       THEN [ev EXCEPT !.network = outcome, !.answer = NetworkError]
       ELSE IF looksUpFallback(ev)
       THEN [ev EXCEPT !.network = outcome, !.fallback = "pending"]
       ELSE [ev EXCEPT !.network = outcome, !.answer = UndefinedResponse]]
  /\ UNCHANGED <<caches, worker>>
  /\ UNCHANGED apiVars
  /\ UNCHANGED uiVars

\* The lookup of the catch handler resolves: caches.match('/index.html') in
\* the pk-finance scripts, caches.match(event.request) in the fintraxa script
fallbackThen(e) ==
  LET ev == events[e]
      cached == IF ev.strategy = "cacheFirst"
                THEN cachesMatch(caches, IndexHtml, "GET")
                ELSE cachesMatch(caches, ev.req.url, ev.req.method)
  IN
  /\ e \in 1..Len(events) /\ ev.fallback = "pending"
  /\ events' = [events EXCEPT ![e] =
       [ev EXCEPT !.fallback = "done",
                  !.answer = IF cached # NoBody THEN CachedResponse(cached)
                             ELSE UndefinedResponse]]
  /\ UNCHANGED <<caches, worker>>
  /\ UNCHANGED apiVars
  /\ UNCHANGED uiVars

\* caches.open(CACHE_NAME).then(cache => cache.put(event.request, clone))
putThen(e) ==
  LET ev == events[e] IN
  /\ e \in 1..Len(events) /\ ev.put = "pending"
  /\ caches' = cachePut(caches, CACHE_NAME(ev.script), ev.req.url,
                        FromNetwork(e))
  /\ events' = [events EXCEPT ![e].put = "done"]
  /\ UNCHANGED worker
  /\ UNCHANGED apiVars
  /\ UNCHANGED uiVars

NextSW ==
  \/ onInstall
  \/ \E ok \in BOOLEAN : addAllSettles(ok)
  \/ onActivate
  \/ keysThen
  \/ \E k \in {CACHE_NAME(script) : script \in Scripts} : deleteSettles(k)
  \/ \E req \in Requests : onFetch(req)
  \/ \E e \in 1..MaxEvents : matchThen(e)
  \/ \E e \in 1..MaxEvents, outcome \in Outcomes : fetchSettles(e, outcome)
  \/ \E e \in 1..MaxEvents : fallbackThen(e)
  \/ \E e \in 1..MaxEvents : putThen(e)

SpecSW == InitSW /\ [][NextSW]_vars

\* An upgrade between the two pk-finance versions: the previous version is
\* the active worker, with its assets cached, and has just been dispatched a
\* fetch event for a script of the bundle when the browser parses the new
\* script.  The previous worker's chains run on while the new one installs
\* and activates.
InitUpgrade ==
  /\ now = 0
  /\ cache = EmptyMap
  /\ inflight = EmptyMap
  /\ net = <<>>
  /\ calls = <<>>
  /\ NoPage
  /\ \E previous \in PkFinance, script \in PkFinance :
        /\ previous # script
        /\ caches = cacheAddAll(<<>>, CACHE_NAME(previous),
                                STATIC_ASSETS(previous))
        /\ worker = [script |-> script, state |-> "parsed",
                     skipWaiting |-> FALSE, claimed |-> FALSE,
                     keys |-> "none", deleting |-> {}]
        /\ events = <<NewEvent(previous,
                        [url |-> SelfUrl(<<"/assets/", "index.js">>),
                         method |-> "GET", mode |-> "no-cors"])>>

SpecUpgrade == InitUpgrade /\ [][NextSW]_vars

\* ============================================================= React views
\* FundsView (src/unnamed/part_000), StocksView (src/unnamed/part_002) and
\* IndicesView share one shape: a list, a selection (the active category,
\* the sub-tab; IndicesView has none), loading and scraping flags, an async
\* load(selection) run by an effect on every change of the selection, and
\* handleScrape().  The model keeps StocksView's names.  Of the api calls a
\* load() awaits, it keeps when and how their Promise.all settles: they are
\* network calls to paths that carry the selection, and settle in any order.
Views == {"funds", "stocks", "indices"}

\* const SUB_TABS, their ids
SUB_TABS == {"all", "gainers", "losers", "active"}

\* The categories FundsView shows as chips
Categories == {"Equity", "Income"}

\* What can be selected in a view; "null" is FundsView's All chip
Selections(component) ==
  CASE component = "funds" -> {"null"} \cup Categories
    [] component = "stocks" -> SUB_TABS
    [] component = "indices" -> {"none"}

\* useState(null) of activeCategory, useState('all') of sub
InitialSelection(component) ==
  CASE component = "funds" -> "null"
    [] component = "stocks" -> "all"
    [] component = "indices" -> "none"

\* The state of a promise that has settled
Settled(ok) == IF ok THEN "resolved" ELSE "rejected"

\* A load() invocation: the selection it was given, who called it (the
\* effect or handleScrape), and whether it still awaits its responses
NewLoad(sel, by) == [sel |-> sel, by |-> by, state |-> "pending"]

\* const load = useCallback(async (view) => ...): the synchronous part, on
\* the state v the caller leaves: setLoading(true), and the api calls start
load(v, sel, by) ==
  /\ Len(loads) < MaxLoads
  /\ loads' = Append(loads, NewLoad(sel, by))
  /\ view' = [v EXCEPT !.loading = TRUE]

\* A view after its first render and the run of its effect, load(sub)
InitView ==
  /\ now = 0
  /\ cache = EmptyMap
  /\ inflight = EmptyMap
  /\ net = <<>>
  /\ calls = <<>>
  /\ NoServiceWorker
  /\ \E component \in Views :
        /\ view = [component |-> component,
                   sub |-> InitialSelection(component),
                   stocks |-> EmptyList, loading |-> TRUE, scraping |-> FALSE]
        /\ loads = <<NewLoad(InitialSelection(component), "effect")>>
  /\ scrape = NoScrape
  /\ NoApp
  /\ pull = PullIdle

\* setSub(s) / setActiveCategory(c) with another value: the view renders
\* again and useEffect(() => { load(sub) }, [load, sub]) runs
setSub(s) ==
  /\ view.component # "none"
  /\ s \in Selections(view.component) \ {view.sub}
  /\ load([view EXCEPT !.sub = s], s, "effect")
  /\ UNCHANGED scrape
  /\ UNCHANGED <<apiVars, swVars, appVars, pull>>

\* setStocks(data.data || []) of load l
Response(l) == [sel |-> loads[l].sel, load |-> l]

\* handleScrape(), after `await load(sub)`: setScraping(false)
handleScrapeEnd(l) ==
  IF scrape.at = "reload" /\ scrape.load = l
  THEN [scraping |-> FALSE, scrape |-> [scrape EXCEPT !.at = "idle"]]
  ELSE [scraping |-> view.scraping, scrape |-> scrape]

\* load(), after the await: the responses arrived (ok) or one of the calls
\* rejected; then setLoading(false), and handleScrape() goes on if it was
\* awaiting this load
loadSettles(l, ok) ==
  /\ l \in 1..Len(loads) /\ loads[l].state = "pending"
  /\ loads' = [loads EXCEPT ![l].state = Settled(ok)]
  /\ view' = [view EXCEPT !.stocks = IF ok THEN Response(l) ELSE EmptyList,
                          !.loading = FALSE,
                          !.scraping = handleScrapeEnd(l).scraping]
  /\ scrape' = handleScrapeEnd(l).scrape
  /\ UNCHANGED <<apiVars, swVars, appVars, pull>>

\* const handleScrape = async () => ...: the synchronous part.  The button is
\* disabled while scraping; the call captures the selection of its render
handleScrape ==
  /\ view.component # "none"
  /\ ~view.scraping
  /\ view' = [view EXCEPT !.scraping = TRUE]
  /\ scrape' = [at |-> "scrape", sel |-> view.sub, load |-> 0,
                api |-> "pending"]
  /\ UNCHANGED loads
  /\ UNCHANGED <<apiVars, swVars, appVars, pull>>

\* try { await api.scrapeStocks(); await load(sub) } catch {}: whether the
\* reload runs once the scrape has settled
reloads_Always(ok) == TRUE
reloads(ok) == ok

\* handleScrape(), after `await api.scrapeStocks()`
scrapeSettles(ok) ==
  /\ scrape.at = "scrape"
  /\ IF reloads(ok)
     THEN /\ load(view, scrape.sel, "scrape")
          /\ scrape' = [scrape EXCEPT !.at = "reload",
                                       !.load = Len(loads) + 1,
                                       !.api = Settled(ok)]
     ELSE /\ view' = [view EXCEPT !.scraping = FALSE]
          /\ scrape' = [scrape EXCEPT !.at = "idle", !.api = Settled(ok)]
          /\ UNCHANGED loads
  /\ UNCHANGED <<apiVars, swVars, appVars, pull>>

NextView ==
  \/ \E s \in SUB_TABS \cup Categories \cup {"null"} : setSub(s)
  \/ \E l \in 1..MaxLoads, ok \in BOOLEAN : loadSettles(l, ok)
  \/ handleScrape
  \/ \E ok \in BOOLEAN : scrapeSettles(ok)

SpecView == InitView /\ [][NextView]_vars

\* ===================================================================== App
\* setInterval(checkHealth, 60000)
PollEvery == 60000

\* const checkHealth = useCallback(...): api.health(), up to the first
\* return of request().  The effect runs it at mount and the interval every
\* PollEvery ms.  A poll records the request() invocation it made, the
\* instant, whether the network was already down, and whether its .then /
\* .catch has run (seen).
checkHealth ==
  /\ now % PollEvery = 0
  /\ \A p \in 1..Len(polls) : polls[p].at # now
  /\ request(HealthPath, NoMethod)
  /\ polls' = Append(polls, [call |-> Len(calls) + 1, at |-> now,
                             outage |-> down, seen |-> FALSE])
  /\ UNCHANGED <<health, down, viewVars, pull>>

\* .then(d => setHealth(d)) / .catch(() => setHealth(null)): the value
\* setHealth is given for a call whose promise settled that way
setsHealth(state, value) == IF state = "resolved" THEN value ELSE Null

\* The continuation of poll p, once the promise of api.health() has settled
healthThen(p) ==
  /\ p \in 1..Len(polls) /\ ~polls[p].seen
  /\ calls[polls[p].call].state # "pending"
  /\ health' = setsHealth(calls[polls[p].call].state,
                          calls[polls[p].call].value)
  /\ polls' = [polls EXCEPT ![p].seen = TRUE]
  /\ UNCHANGED <<down, viewVars, pull>>
  /\ UNCHANGED <<apiVars, swVars>>

\* Header({ health }): mufapOk = health?.mufap?.ready, psxOk likewise.  The
\* body /api/health answers with says ready for both services.
Header(h) == [mufapOk |-> h.tag = "json", psxOk |-> h.tag = "json"]

\* The continuations of App are microtasks too: no poll is waiting for a
\* promise that has already settled
AppQuiet ==
  \A p \in 1..Len(polls) :
     ~polls[p].seen => calls[polls[p].call].state = "pending"

\* From now on every API network call fails
goesDown ==
  /\ ~down
  /\ down' = TRUE
  /\ UNCHANGED <<health, polls, viewVars, pull>>
  /\ UNCHANGED <<apiVars, swVars>>

\* Network call n is answered with a 2xx response: only while the network
\* is up
netAnswers(n) ==
  /\ AppQuiet
  /\ ~down
  /\ requestThen(n) \/ revalidateThen(n, TRUE)

\* Network call n fails
netFails(n) ==
  /\ AppQuiet
  /\ \/ \E why \in Failures : requestCatch(n, why)
     \/ revalidateThen(n, FALSE)
     \/ revalidateCatch(n)

NextApp ==
  \/ checkHealth
  \/ \E p \in 1..MaxCalls : healthThen(p)
  \/ goesDown
  \/ \E n \in 1..MaxNet : netAnswers(n)
  \/ \E n \in 1..MaxNet : netFails(n)
  \/ \E c \in 1..MaxCalls : Settle(c)
  \/ Tick

\* Every network call settles, and the event loop runs the continuations of
\* request() and of checkHealth()
SpecApp ==
  /\ Init /\ [][NextApp]_vars
  /\ \A n \in 1..MaxNet : WF_vars(netAnswers(n) \/ netFails(n))
  /\ \A c \in 1..MaxCalls : WF_vars(Settle(c))
  /\ \A p \in 1..MaxCalls : WF_vars(healthThen(p))

\* =========================================================== PullToRefresh
\* src/frontend-service/src/App.jsx lines 42-119.  Lengths are in px.
THRESHOLD == 60
MAX_PULL == 100

\* (currentY - startY) * RESISTANCE, RESISTANCE = 0.4; exact on the
\* positions of ClientYs, which are multiples of 5
Resisted(d) == (d * 4) \div 10

\* THRESHOLD * 0.7
Settling == (THRESHOLD * 7) \div 10

\* e.touches[0].clientY: the positions a finger is seen at
ClientYs == {0, 100, 150, 300}

\* getScrollTop(): 0 at the top of the scrollable parent
ScrollTops == {0, 1}

Min(a, b) == IF a < b THEN a ELSE b

\* const onTouchStart = useCallback((e) => ...)
onTouchStart(y, top) ==
  /\ pull' = IF pull.refreshing \/ top > 0
             THEN pull
             ELSE [pull EXCEPT !.startY = y, !.currentY = y, !.pulling = TRUE]
  /\ UNCHANGED <<apiVars, swVars, viewVars, appVars>>

\* const onTouchMove = useCallback((e) => ...)
onTouchMove(y, top) ==
  LET delta == Resisted(y - pull.startY)
      dist == Min(delta, MAX_PULL)
  IN
  /\ pull' =
       IF ~pull.pulling \/ pull.refreshing
       THEN pull
       ELSE IF top > 0
       THEN [pull EXCEPT !.pulling = FALSE, !.pullDistance = 0,
                         !.phase = "idle"]
       ELSE IF delta <= 0
       THEN [pull EXCEPT !.currentY = y, !.pullDistance = 0, !.phase = "idle"]
       ELSE [pull EXCEPT !.currentY = y, !.pullDistance = dist,
                         !.phase = IF dist >= THRESHOLD THEN "ready"
                                   ELSE "pulling"]
  /\ UNCHANGED <<apiVars, swVars, viewVars, appVars>>

\* pullDistance >= THRESHOLD && !refreshing
triggers_AnyPull(pullDistance, refreshing) == ~refreshing
triggers(pullDistance, refreshing) ==
  pullDistance >= THRESHOLD /\ ~refreshing

\* const onTouchEnd = useCallback(async () => ...): up to `await onRefresh?.()`,
\* or to the end when the pull does not trigger a refresh
onTouchEnd ==
  /\ pull.invoked < MaxRefreshes
  /\ pull' =
       IF ~pull.pulling
       THEN pull
       ELSE IF triggers(pull.pullDistance, pull.refreshing)
       THEN [pull EXCEPT !.pulling = FALSE, !.refreshing = TRUE,
                         !.phase = "refreshing", !.pullDistance = Settling,
                         !.awaiting = @ + 1, !.invoked = @ + 1]
       ELSE [pull EXCEPT !.pulling = FALSE, !.pullDistance = 0,
                         !.phase = "idle"]
  /\ UNCHANGED <<apiVars, swVars, viewVars, appVars>>

\* onTouchEnd(), after try { await onRefresh?.() } catch {}: onRefresh()
\* resolved (ok) or rejected; setPhase('done') and the 300 ms timer starts
onRefreshSettles(ok) ==
  /\ pull.awaiting > 0
  /\ pull' = [pull EXCEPT !.phase = "done", !.awaiting = @ - 1,
                          !.pausing = @ + 1]
  /\ UNCHANGED <<apiVars, swVars, viewVars, appVars>>

\* onTouchEnd(), after await new Promise(r => setTimeout(r, 300))
pauseOver ==
  /\ pull.pausing > 0
  /\ pull' = [pull EXCEPT !.refreshing = FALSE, !.pullDistance = 0,
                          !.phase = "idle", !.pausing = @ - 1]
  /\ UNCHANGED <<apiVars, swVars, viewVars, appVars>>

NextPull ==
  \/ \E y \in ClientYs, top \in ScrollTops : onTouchStart(y, top)
  \/ \E y \in ClientYs, top \in ScrollTops : onTouchMove(y, top)
  \/ onTouchEnd
  \/ \E ok \in BOOLEAN : onRefreshSettles(ok)
  \/ pauseOver

\* The 300 ms timer fires
SpecPull ==
  /\ Init /\ [][NextPull]_vars
  /\ WF_vars(pauseOver)

\* ============================================================== properties
\* A step in which api.<op>() is called: the call is the last of calls'
Issues(op) ==
  /\ Len(calls') = Len(calls) + 1
  /\ calls'[Len(calls')].path = api[op].path

\* A step in which the chain of network call n settles
Settles(n) == Underway(n) /\ net'[n].state # "underway"

\* A step in which the caller of call c observes the result
Observes(c) ==
  /\ c \in 1..Len(calls) /\ calls[c].state = "pending"
  /\ calls'[c].state # "pending"

\* The caller sees what the promise it awaits settled with
ObservesThePromise(c) ==
  /\ calls'[c].state = IF net[calls[c].promise].state = "fulfilled"
                       THEN "resolved" ELSE "rejected"
  /\ calls'[c].value = net[calls[c].promise].value

\* C1: single-flight.  A GET issued for a key that has no fresh or stale
\* entry, while an earlier GET for the same key has not settled, makes no
\* further network call and awaits the promise the earlier one awaits, so that
\* exactly one network call serves them and they receive the same result.
C1_SingleFlight ==
  [][\A op \in ApiOps : \A c \in 1..Len(calls) :
       ( /\ Issues(op)
         /\ isGet(api[op].method)
         /\ calls'[Len(calls')].via \in {"fetch", "attach"}
         /\ calls[c].path = api[op].path
         /\ calls[c].via \in {"fetch", "attach"}
         /\ Underway(calls[c].promise) )
       => /\ net' = net
          /\ calls'[Len(calls')].promise = calls[c].promise]_vars

\* C2: at most one GET network call is underway per cache key.
C2_OneCallPerKey ==
  \A n1, n2 \in 1..Len(net) :
     ( /\ Underway(n1) /\ Underway(n2)
       /\ isGet(net[n1].method) /\ isGet(net[n2].method)
       /\ net[n1].key = net[n2].key )
     => n1 = n2

\* C3: fail-soft fallback.  When the network call made by a GET request()
\* fails while the cache holds an entry for its key, the promise is fulfilled
\* with the cached payload, and that is what every caller awaiting it receives.
C3_FailSoft ==
  [][ /\ \A n \in 1..Len(net) :
           ( /\ Settles(n) /\ net[n].kind = "request" /\ isGet(net[n].method)
             /\ net'[n].response = "failed"
             /\ net[n].key \in DOMAIN cache )
           => /\ net'[n].state = "fulfilled"
              /\ net'[n].value = cache[net[n].key].data
              /\ net'[n].value.tag = "json"
      /\ \A c \in 1..Len(calls) :
           (Observes(c) /\ net[calls[c].promise].state = "fulfilled")
           => ObservesThePromise(c) ]_vars

\* A GET that made a network call which failed, and that resolved with the
\* payload the cache held
C3_Witness ==
  \E c \in 1..Len(calls) :
     /\ isGet(calls[c].method) /\ calls[c].via = "fetch"
     /\ calls[c].state = "resolved"
     /\ net[calls[c].promise].response = "failed"
     /\ calls[c].value.tag = "json"
     /\ calls[c].value.src # calls[c].promise

C5_ResolvesWithPayload ==
  \A c \in 1..Len(calls) :
     (isGet(calls[c].method) /\ calls[c].state = "resolved")
     => /\ calls[c].value.tag = "json"
        /\ net[calls[c].value.src].key = calls[c].key

\* C6: a GET issued after a scrape covering its key has resolved returns data
\* of a network call issued after that scrape resolved.
C6_FreshAfterScrape ==
  \A c \in 1..Len(calls) :
     ( /\ isGet(calls[c].method) /\ calls[c].after >= 0
       /\ calls[c].state = "resolved" )
     => /\ calls[c].value.tag = "json"
        /\ calls[c].value.src > calls[c].after

\* C7: fresh window.  A GET for a key whose entry has age < CACHE_TTL returns
\* the cached payload at once, makes no network call and leaves the cache and
\* the in-flight registry unchanged.
C7_FreshWindow ==
  [][\A op \in ApiOps :
       LET key == getCacheKey(api[op].path, api[op].method) IN
       ( /\ Issues(op) /\ isGet(api[op].method)
         /\ key \in DOMAIN cache
         /\ now - cache[key].time < CACHE_TTL )
       => /\ calls'[Len(calls')].state = "resolved"
          /\ calls'[Len(calls')].value = cache[key].data
          /\ net' = net
          /\ cache' = cache
          /\ inflight' = inflight]_vars

\* A GET served from an entry of age CACHE_TTL - 1
C7_Witness ==
  /\ now = CACHE_TTL - 1
  /\ \E c \in 1..Len(calls) :
        /\ calls[c].via = "fresh"
        /\ calls[c].key \in DOMAIN cache
        /\ cache[calls[c].key].time = 0
        /\ calls[c].value = cache[calls[c].key].data
        /\ \A n \in 1..Len(net) : net[n].state # "underway"

C9_ExpiredIsMiss ==
  /\ [](\A c \in 1..Len(calls) :
          calls[c].expired
          => /\ calls[c].via \in {"attach", "fetch"}
             /\ net[calls[c].promise].key = calls[c].key
             /\ (net[calls[c].promise].response = "ok" /\ calls[c].state # "pending")
                => /\ calls[c].state = "resolved"
                   /\ calls[c].value = Json(calls[c].promise))
  /\ [][\A c \in 1..Len(calls) :
          ( /\ calls[c].expired
            /\ Settles(calls[c].promise)
            /\ net'[calls[c].promise].response = "ok" )
          => /\ calls[c].key \in DOMAIN cache'
             /\ cache'[calls[c].key].data = Json(calls[c].promise)]_vars

\* C10: mutating bypass.  A POST never leaves request() by a cache or
\* in-flight return: every POST makes its own network call, the cache and the
\* in-flight registry are the same before and after the call is issued and
\* before and after it settles, neither ever holds a POST key, a POST that
\* succeeds resolves with the body of its own response and a POST that fails
\* is rejected with the error of its own network call.
C10_MutatingBypass ==
  /\ [](/\ \A c \in 1..Len(calls) :
             calls[c].method = "POST"
             => /\ calls[c].via = "fetch"
                /\ net[calls[c].promise].method = "POST"
                /\ \A d \in 1..Len(calls) :
                      calls[d].promise = calls[c].promise => d = c
                /\ calls[c].state = "resolved"
                   => calls[c].value = Json(calls[c].promise)
                /\ net[calls[c].promise].response = "failed"
                   => /\ net[calls[c].promise].state = "rejected"
                      /\ net[calls[c].promise].value = Err(calls[c].promise)
                      /\ calls[c].state # "resolved"
        /\ \A k \in DOMAIN cache \cup DOMAIN inflight : k[1] # "POST")
  /\ [][ /\ \A op \in ApiOps :
              (Issues(op) /\ api[op].method = "POST")
              => /\ cache' = cache /\ inflight' = inflight
                 /\ Len(net') = Len(net) + 1
         /\ \A n \in 1..Len(net) :
              (Settles(n) /\ net[n].method = "POST")
              => cache' = cache /\ inflight' = inflight ]_vars

\* Two identical POSTs with two network calls underway, while the cache holds
\* an entry and a GET is in flight
C10_Witness ==
  \E c1, c2 \in 1..Len(calls) :
     /\ c1 # c2
     /\ calls[c1].method = "POST" /\ calls[c2].method = "POST"
     /\ calls[c1].path = calls[c2].path
     /\ calls[c1].promise # calls[c2].promise
     /\ Underway(calls[c1].promise) /\ Underway(calls[c2].promise)

\* A step in which the scrape call c resolves: its continuation has run
ScrapeResolves(c) ==
  /\ Observes(c) /\ calls[c].then # NoPrefix
  /\ calls'[c].state = "resolved"

\* A step of clearAllCache(): the only one that changes the maps and neither
\* the clock, nor a network call, nor a call
ClearStep == now' = now /\ net' = net /\ calls' = calls

\* C11: invalidate(prefix), run when a scrape resolves, removes exactly the
\* entries whose key contains prefix and leaves every other entry as it was;
\* with entries for GET:/api/mufap/funds and GET:/api/psx/stocks,
\* invalidate('/api/mufap/') removes the first and keeps the second.
C11_InvalidateExactly ==
  [][\A c \in 1..Len(calls) :
       ScrapeResolves(c)
       => /\ DOMAIN cache' \subseteq DOMAIN cache
          /\ \A k \in DOMAIN cache :
                IF \E i \in 1..(Len(k) - Len(calls[c].then) + 1) :
                      SubSeq(k, i, i + Len(calls[c].then) - 1) = calls[c].then
                THEN k \notin DOMAIN cache'
                ELSE k \in DOMAIN cache' /\ cache'[k] = cache[k]
          /\ ( /\ calls[c].then = <<"/api/", "mufap/">>
               /\ <<"GET", ":", "/api/", "psx/", "stocks">> \in DOMAIN cache )
             => <<"GET", ":", "/api/", "psx/", "stocks">> \in DOMAIN cache']_vars

\* api.scrapeFunds() has resolved: the entry for the stocks is the one of
\* instant 0, the entry for the funds is gone
C11_Witness ==
  /\ \E c \in 1..Len(calls) :
        /\ calls[c].then = MufapPrefix /\ calls[c].state = "resolved"
  /\ \A c \in 1..Len(calls) : calls[c].method = "POST"
  /\ DOMAIN cache = {<<"GET", ":", "/api/", "psx/", "stocks">>}
  /\ cache[<<"GET", ":", "/api/", "psx/", "stocks">>] = [data |-> Json(0), time |-> 0]

\* C12: clearAllCache() empties the cache and the in-flight registry and
\* touches no network call, so the calls underway stay underway; when such a
\* call later succeeds, its payload is written into the cache.
C12_ClearAll ==
  [][ /\ ClearStep => cache' = EmptyMap /\ inflight' = EmptyMap
      /\ \A n \in 1..Len(net) :
           ( /\ Settles(n) /\ isGet(net[n].method)
             /\ net'[n].response = "ok" )
           => /\ net[n].key \in DOMAIN cache'
              /\ cache'[net[n].key] = [data |-> Json(n), time |-> now] ]_vars

\* Two fetches were made for one key, which takes a clearAllCache() between
\* them; the first has succeeded since and its payload is the cached one,
\* while the second is still underway
C12_Witness ==
  \E n1, n2 \in 1..Len(net) :
     /\ n1 < n2
     /\ net[n1].key = net[n2].key
     /\ net[n1].kind = "request" /\ net[n2].kind = "request"
     /\ net[n1].response = "ok" /\ Underway(n2)
     /\ net[n1].key \in DOMAIN cache
     /\ cache[net[n1].key].data = Json(n1)
     /\ \E c \in 1..Len(calls) : calls[c].promise = n2 /\ ~calls[c].expired

\* C16: for every GET network call, the in-flight registry holds the entry of
\* that call for its key as long as the call is underway; an entry leaves the
\* registry only in the step in which the call it stands for settles; and no
\* caller has observed the result of a call whose entry is still registered.
C16_RegisteredUntilSettled ==
  /\ [](/\ \A n \in 1..Len(net) :
             (Underway(n) /\ isGet(net[n].method))
             => /\ net[n].key \in DOMAIN inflight
                /\ inflight[net[n].key] = n
        /\ \A c \in 1..Len(calls) :
             (calls[c].promise # 0 /\ calls[c].state # "pending")
             => ~( /\ calls[c].key \in DOMAIN inflight
                   /\ inflight[calls[c].key] = calls[c].promise ))
  /\ [][\A k \in DOMAIN inflight :
          (k \notin DOMAIN inflight' \/ inflight'[k] # inflight[k])
          => Settles(inflight[k])]_vars

\* C17: when the network call of a revalidation settles, its promise is
\* fulfilled, never rejected, and no network call is started; after a success
\* the entry for its key holds the new payload and the current time, after a
\* failure (transport error or non-2xx status) the cache is as it was.  A
\* caller awaiting that promise is not rejected, and a revalidation starts only
\* in a step in which a GET is served a stale entry.
C17_RevalidationOutcome ==
  [][ /\ \A n \in 1..Len(net) :
           (Settles(n) /\ net[n].kind = "revalidate")
           => /\ net'[n].state = "fulfilled"
              /\ Len(net') = Len(net)
              /\ IF net'[n].response = "ok"
                 THEN cache' = MapSet(cache, net[n].key,
                                      [data |-> Json(n), time |-> now])
                 ELSE cache' = cache
      /\ \A c \in 1..Len(calls) :
           (Observes(c) /\ net[calls[c].promise].kind = "revalidate")
           => calls'[c].state = "resolved"
      /\ ( /\ Len(net') = Len(net) + 1
           /\ net'[Len(net')].kind = "revalidate" )
         => /\ Len(calls') = Len(calls) + 1
            /\ calls'[Len(calls')].via = "stale"
            /\ calls'[Len(calls')].key = net'[Len(net')].key ]_vars

\* Two revalidations have settled: the one that succeeded replaced the entry
\* of its key by its payload and the time of its success, the one that failed
\* left the entry of instant 0, and the reads that started them resolved
C17_Witness ==
  \E n1, n2 \in 1..Len(net) :
     /\ net[n1].kind = "revalidate" /\ net[n2].kind = "revalidate"
     /\ net[n1].response = "ok" /\ net[n2].response = "failed"
     /\ net[n1].key \in DOMAIN cache /\ net[n2].key \in DOMAIN cache
     /\ cache[net[n1].key] = [data |-> Json(n1), time |-> STALE_TTL]
     /\ cache[net[n2].key] = [data |-> Json(0), time |-> 0]
     /\ \A c \in 1..Len(calls) : calls[c].state = "resolved"

\* C18: a stale read of a key for which the in-flight registry holds an entry
\* issues no network call and changes neither the cache nor the registry, and
\* at most one revalidation is underway per key.
C18_RevalidateNoOp ==
  /\ [][\A op \in ApiOps :
          LET key == getCacheKey(api[op].path, api[op].method) IN
          ( /\ Issues(op) /\ calls'[Len(calls')].via = "stale"
            /\ key \in DOMAIN inflight )
          => net' = net /\ cache' = cache /\ inflight' = inflight]_vars
  /\ [](\A n1, n2 \in 1..Len(net) :
          ( /\ Underway(n1) /\ Underway(n2)
            /\ net[n1].kind = "revalidate" /\ net[n2].kind = "revalidate"
            /\ net[n1].key = net[n2].key )
          => n1 = n2)

\* C19: no eviction by age.  A key leaves the cache only in a step of
\* clearAllCache() or in a step in which a scrape resolves whose prefix the key
\* contains; a step in which request() is called or a network call settles
\* removes no key.
C19_NoEviction ==
  [][ /\ \A k \in DOMAIN cache :
           k \notin DOMAIN cache'
           => \/ ClearStep /\ cache' = EmptyMap
              \/ \E c \in 1..Len(calls) :
                    ScrapeResolves(c) /\ includes(k, calls[c].then)
      /\ ( \/ Len(calls') = Len(calls) + 1
           \/ \E n \in 1..Len(net) : Settles(n) )
         => DOMAIN cache \subseteq DOMAIN cache' ]_vars

\* At STALE_TTL a GET found the entry of instant 0 expired, its fetch failed,
\* and the entry is still there: it is what the GET resolved with
C19_Witness ==
  /\ now = STALE_TTL
  /\ \E c \in 1..Len(calls) :
        /\ calls[c].expired /\ calls[c].via = "fetch"
        /\ net[calls[c].promise].response = "failed"
        /\ calls[c].state = "resolved"
        /\ calls[c].key \in DOMAIN cache
        /\ cache[calls[c].key].time = 0
        /\ calls[c].value = cache[calls[c].key].data

\* C20: when the POST of a scrape method fails, its promise is rejected with
\* the error of that network call and the cache is unchanged; the caller is
\* rejected with that error, and its continuation, which would invalidate,
\* does not run: the cache is unchanged in that step too.
C20_ScrapeFailure ==
  [][ /\ \A n \in 1..Len(net) :
           ( /\ Settles(n) /\ net[n].method = "POST"
             /\ net'[n].response = "failed" )
           => /\ net'[n].state = "rejected"
              /\ net'[n].value = Err(n)
              /\ cache' = cache
      /\ \A c \in 1..Len(calls) :
           ( /\ Observes(c) /\ calls[c].then # NoPrefix
             /\ net[calls[c].promise].response = "failed" )
           => /\ calls'[c].state = "rejected"
              /\ calls'[c].value = Err(calls[c].promise)
              /\ cache' = cache ]_vars

\* api.scrapeFunds() was rejected with the error of its POST, and the entry a
\* GET of the funds created before is still cached
C20_Witness ==
  \E c \in 1..Len(calls) :
     /\ calls[c].then = MufapPrefix
     /\ calls[c].state = "rejected"
     /\ calls[c].value = Err(calls[c].promise)
     /\ \E k \in DOMAIN cache : includes(k, calls[c].then)

\* C13: in every service-worker script, once activation is over every cache
\* of another name than CACHE_NAME is deleted, and clients.claim() is called
\* only when those deletions are over: no deletion is pending and no cache of
\* another name is left in the step in which the clients are claimed.
C13_DeleteBeforeClaim ==
  /\ [](worker.state = "activated"
        => CacheNames(caches) \subseteq {CACHE_NAME(worker.script)})
  /\ [][(~worker.claimed /\ worker'.claimed)
        => /\ worker'.deleting = {}
           /\ CacheNames(caches') \subseteq {CACHE_NAME(worker.script)}]_vars

\* C14: in every service-worker script, a request whose path starts with
\* /api/ is answered by the network or fails with the network's error: no
\* cache is looked up for it, its response is not stored, and no step creates
\* or changes a cache entry under an /api/ URL.
C14_ApiNetworkOnly ==
  /\ [](\A e \in 1..Len(events) :
          startsWithApi(events[e].req.url)
          => /\ events[e].answer.from \in {"none", "network", "error"}
             /\ events[e].match = "none"
             /\ events[e].fallback = "none"
             /\ events[e].put = "none")
  /\ [][\A i \in 1..Len(caches') : \A u \in DOMAIN caches'[i].entries :
          startsWithApi(u)
          => \E j \in 1..Len(caches) :
                /\ caches[j].name = caches'[i].name
                /\ u \in DOMAIN caches[j].entries
                /\ caches[j].entries[u] = caches'[i].entries[u]]_vars

\* C15: in the pk-finance service workers, when a static request found no
\* cached match and its fetch failed, a navigation is answered with the cached
\* /index.html once the lookup of the catch handler has resolved, and any
\* other request gets no response: respondWith() receives undefined and no
\* lookup is made.
C15_OfflineFallback ==
  \A e \in 1..Len(events) :
     ( /\ events[e].script \in PkFinance
       /\ ~startsWithApi(events[e].req.url)
       /\ events[e].match = "miss"
       /\ events[e].network = "error" )
     => IF events[e].req.mode = "navigate"
        THEN \/ /\ events[e].fallback = "pending"
                /\ events[e].answer = NoAnswer
             \/ /\ events[e].fallback = "done"
                /\ events[e].answer.from = "cache"
                /\ \E i \in 1..Len(caches) :
                      /\ IndexHtml \in DOMAIN caches[i].entries
                      /\ caches[i].entries[IndexHtml] = events[e].answer.body
        ELSE /\ events[e].fallback = "none"
             /\ events[e].answer = UndefinedResponse

\* Offline, a navigation to a route that is not cached was answered with the
\* precached /index.html, and the request for a script that is not cached got
\* no response
C15_Witness ==
  \E e1, e2 \in 1..Len(events) :
     /\ events[e1].script \in PkFinance
     /\ events[e1].req.mode = "navigate" /\ events[e1].req.url # IndexHtml
     /\ events[e1].match = "miss" /\ events[e1].network = "error"
     /\ events[e1].answer = CachedResponse(Precached)
     /\ events[e2].req.mode # "navigate"
     /\ events[e2].match = "miss" /\ events[e2].network = "error"
     /\ events[e2].answer = UndefinedResponse

\* The cache of that name holds an entry for every one of the URLs
HoldsAll(name, urls) ==
  \E i \in 1..Len(caches) :
     caches[i].name = name /\ urls \subseteq DOMAIN caches[i].entries

\* C22: in every script, once the install step has completed successfully
\* the cache named CACHE_NAME holds every entry of STATIC_ASSETS, as install
\* stored it, and skipWaiting() has been called, so that the worker can go on
\* to activate without waiting.
C22_Install ==
  worker.state \in {"installed", "activating", "activated"}
  => /\ worker.skipWaiting
     /\ \E i \in 1..Len(caches) :
           /\ caches[i].name = CACHE_NAME(worker.script)
           /\ \A u \in STATIC_ASSETS(worker.script) :
                 /\ u \in DOMAIN caches[i].entries
                 /\ worker.state = "installed"
                    => caches[i].entries[u] = Precached
     /\ worker.state = "installed" => ENABLED onActivate

\* The fintraxa worker is installed over a cache of its own name that an
\* earlier installation left: the two assets are the new ones, the API
\* response it held is still there
C22_Witness ==
  /\ worker.script = "public" /\ worker.state = "installed"
  /\ Len(caches) = 1 /\ caches[1].name = "fintraxa-v1"
  /\ DOMAIN caches[1].entries = STATIC_ASSETS("public")
                                  \cup {SelfUrl(<<"/api/", "psx/", "stocks">>)}
  /\ caches[1].entries[IndexHtml] = Precached
  /\ caches[1].entries[SelfUrl(<<"/">>)] = Precached
  /\ caches[1].entries[SelfUrl(<<"/api/", "psx/", "stocks">>)] = Old

\* C23: in the pk-finance service workers, a request that is not for the API
\* and has a cached match is answered from the cache without a fetch; one
\* without a match is fetched, and its response is put into CACHE_NAME if and
\* only if it is ok and of type basic.  (The static script answers requests to
\* other origins from the network; no cache ever holds a match for them.)
C23_CacheFirst ==
  /\ \A e \in 1..Len(events) :
        (events[e].script \in PkFinance /\ ~startsWithApi(events[e].req.url))
        => /\ events[e].match = "hit"
              => /\ events[e].network = "none"
                 /\ events[e].answer.from = "cache"
                 /\ events[e].put = "none"
           /\ events[e].match \in {"miss", "none"}
              => /\ events[e].network # "none"
                 /\ events[e].put # "none"
                    <=> /\ events[e].network = "ok"
                        /\ events[e].req.url.origin = "self"
                 /\ events[e].put = "done"
                    => HoldsAll(CACHE_NAME(events[e].script), {events[e].req.url})
                 /\ events[e].answer.from \in {"network", "none"}
                    \/ events[e].network = "error"
  /\ worker.script = "static"
     => \A i \in 1..Len(caches) : \A u \in DOMAIN caches[i].entries :
           u.origin = "self"

\* A navigation to /index.html was answered from the cache without a fetch;
\* a script that was not cached was fetched, and its response is now in the
\* worker's cache
C23_Witness ==
  \E e1, e2 \in 1..Len(events) :
     /\ events[e1].script \in PkFinance
     /\ events[e1].match = "hit" /\ events[e1].network = "none"
     /\ events[e1].answer = CachedResponse(Precached)
     /\ events[e2].match = "miss" /\ events[e2].network = "ok"
     /\ events[e2].answer = NetworkResponse(e2, TRUE)
     /\ events[e2].put = "done"
     /\ \E i \in 1..Len(caches) :
           /\ caches[i].name = CACHE_NAME(events[e2].script)
           /\ events[e2].req.url \in DOMAIN caches[i].entries
           /\ caches[i].entries[events[e2].req.url] = FromNetwork(e2)

\* C26: the fintraxa-v1 worker is network-first.  A same-origin GET is
\* fetched first, never looked up first; its response is put into CACHE_NAME
\* if and only if it is ok; it is answered from the cache only after the fetch
\* failed.  A request to another origin or with another method is left to the
\* browser: no lookup, no put, and no cache holds an entry for such a URL.
C26_NetworkFirst ==
  /\ \A e \in 1..Len(events) :
        events[e].script = "public"
        => /\ events[e].match = "none" /\ events[e].network # "none"
           /\ IF /\ events[e].req.url.origin = "self"
                 /\ events[e].req.method = "GET"
              THEN /\ events[e].put # "none" <=> events[e].network = "ok"
                   /\ events[e].put = "done"
                      => HoldsAll("fintraxa-v1", {events[e].req.url})
                   /\ events[e].fallback # "none" <=> events[e].network = "error"
                   /\ events[e].answer.from = "cache"
                      => events[e].network = "error"
                   /\ events[e].network \in {"ok", "notok"}
                      => events[e].answer.from = "network"
              ELSE /\ events[e].put = "none" /\ events[e].fallback = "none"
                   /\ events[e].answer.from \in {"none", "network", "error"}
  /\ worker.script = "public"
     => \A i \in 1..Len(caches) : \A u \in DOMAIN caches[i].entries :
           /\ u.origin = "self"
           /\ u # SelfUrl(<<"/api/", "psx/", "scrape/sync">>)

\* The fintraxa worker stored the ok response to a same-origin GET, and
\* answered the same request with it later, when the fetch failed
C26_Witness ==
  \E e1, e2 \in 1..Len(events) :
     /\ e1 < e2
     /\ events[e1].script = "public" /\ events[e2].script = "public"
     /\ events[e1].req = events[e2].req
     /\ events[e1].network = "ok" /\ events[e1].put = "done"
     /\ events[e2].network = "error" /\ events[e2].fallback = "done"
     /\ events[e2].answer = CachedResponse(FromNetwork(e1))

\* C24: for each cache key the data held never goes backwards: no step
\* replaces the payload of a network call by the payload of a network call
\* that was issued earlier.
C24_NoLostUpdate ==
  [][\A k \in DOMAIN cache \cap DOMAIN cache' :
       cache'[k].data.src >= cache[k].data.src]_vars

\* C21: when every network call settles in the end, every request() call
\* that is pending settles in the end, resolved or rejected, and whenever no
\* network call is underway the in-flight registry is empty.
C21_Termination ==
  /\ \A c \in 1..MaxCalls :
        (c <= Len(calls) /\ calls[c].state = "pending")
        ~> (c <= Len(calls) /\ calls[c].state \in {"resolved", "rejected"})
  /\ []((\A n \in 1..Len(net) : ~Underway(n)) => inflight = EmptyMap)
  /\ \A n \in 1..MaxNet : Underway(n) ~> (inflight = EmptyMap)

\* Three callers awaited one fetch; it has failed, all three were rejected
\* and the registry is empty
C21_Witness ==
  /\ Len(calls) = 3 /\ Len(net) = 1
  /\ \A c \in 1..Len(calls) :
        calls[c].promise = 1 /\ calls[c].state = "rejected"
  /\ inflight = EmptyMap

\* C25: once a pk-finance worker has finished its activate cleanup, no cache
\* of another name than its CACHE_NAME exists, whatever the fetches of the
\* previous version's worker do when they settle afterwards.
C25_OldCachesStayDeleted ==
  (worker.script \in PkFinance /\ worker.state = "activated")
  => \A i \in 1..Len(caches) : caches[i].name = CACHE_NAME(worker.script)

\* The load() the effect ran last: the one for the current selection
LatestLoad == SetMax({l \in 1..Len(loads) : loads[l].by = "effect"})

AllSettled == \A l \in 1..Len(loads) : loads[l].state # "pending"

\* C27: in FundsView and StocksView, once every overlapping load() has
\* settled, the list on display is the response for the most recently
\* selected category / sub-tab, whatever order the responses arrived in
\* (the load for that selection having had its responses).
C27_LatestSelectionShown ==
  ( /\ view.component \in {"funds", "stocks"}
    /\ AllSettled
    /\ loads[LatestLoad].state = "resolved" )
  => view.stocks.sel = view.sub

\* C29: handleScrape() sets scraping, which stays true while the scrape is
\* pending; it reloads the view only if the scrape resolved (a rejected
\* scrape leaves no reload behind); and scraping is false again as soon as
\* the scrape has rejected, or has resolved and its reload has settled, either
\* way.
C29_HandleScrape ==
  /\ scrape.api = "none" => ~view.scraping /\ scrape.load = 0
  /\ scrape.api = "pending" => view.scraping /\ scrape.load = 0
  /\ scrape.api = "rejected" => ~view.scraping /\ scrape.load = 0
  /\ scrape.api = "resolved" =>
        /\ scrape.load \in 1..Len(loads)
        /\ loads[scrape.load].by = "scrape"
        /\ loads[scrape.load].sel = scrape.sel
        /\ view.scraping <=> loads[scrape.load].state = "pending"
  /\ Cardinality({l \in 1..Len(loads) : /\ loads[l].by = "scrape"
                                         /\ loads[l].state = "pending"}) <= 1

\* A scrape resolved, its reload failed, and scraping is false again
C29_Witness ==
  /\ scrape.api = "resolved"
  /\ scrape.load \in 1..Len(loads)
  /\ loads[scrape.load].state = "rejected"
  /\ ~view.scraping

\* The polls made during the outage that went to the network (request()
\* found no entry young enough to answer with) and gave their result to App
OutagePolls ==
  {p \in 1..Len(polls) : /\ polls[p].outage /\ polls[p].seen
                         /\ calls[polls[p].call].via = "fetch"}

\* C28: once every API network call fails, checkHealth sets health to null:
\* after the latest poll was one whose network call failed in the outage,
\* health is null and the badges of Header do not report the services as
\* ready.
C28_OutageReported ==
  \A p \in OutagePolls :
     (\A q \in 1..Len(polls) : q > p => ~polls[q].seen)
       => (health = Null /\ ~Header(health).mufapOk /\ ~Header(health).psxOk)

\* C30: onRefresh is invoked only when a pull is released with
\* pullDistance >= THRESHOLD while no refresh is in progress; there is never
\* a second onRefresh while one is pending, touch start and touch move being
\* ignored while refreshing; and once onRefresh has settled, either way, the
\* component returns to phase idle, pullDistance 0, refreshing false.
C30_PullToRefresh ==
  /\ [][pull'.invoked > pull.invoked =>
          /\ pull.pulling /\ ~pull'.pulling
          /\ pull.pullDistance >= THRESHOLD
          /\ ~pull.refreshing
          /\ pull.awaiting + pull.pausing = 0
          /\ pull'.awaiting = 1]_vars
  /\ [](pull.awaiting + pull.pausing <= 1)
  /\ [](pull.refreshing <=> pull.awaiting + pull.pausing = 1)
  /\ [][pull.refreshing =>
          /\ ~pull'.pulling
          /\ pull'.startY = pull.startY /\ pull'.currentY = pull.currentY
          /\ pull'.invoked = pull.invoked]_vars
  /\ (pull.pausing > 0)
       ~> (pull.phase = "idle" /\ pull.pullDistance = 0 /\ ~pull.refreshing)

\* A pull was released past the threshold, onRefresh was called and rejected
\* or resolved, and the pause before idle is running
C30_Witness ==
  /\ pull.pausing = 1
  /\ pull.phase = "done"
  /\ pull.refreshing
  /\ pull.pullDistance = Settling

====
